---- MODULE Spec2Model ----
(***************************************************************************)
(* Model of clip (src/src/main.cpp, src/src/utils.cpp): the batch driver   *)
(* that clips the raster bands of a Landsat scene to the inflated extent   *)
(* of a mask, and the string utilities it is built from.                   *)
(*                                                                         *)
(* A std::string is a sequence of one-character strings.  Positions are    *)
(* 0-based as in C++; std::string::npos is Npos (-1), so that npos + 1     *)
(* wraps to 0 exactly as the unsigned arithmetic of the code does.         *)
(***************************************************************************)
EXTENDS Integers, Sequences, FiniteSets, TLC

(***************************************************************************)
(* Bounds of the model.                                                    *)
(***************************************************************************)
\* longest input string handed to split_by_commas and splitPath
MaxLen == 4
\* largest number of entries of the input directory
MaxFiles == 2
\* largest UTM zone (in absolute value) handed to getEPSGFromUTMZone
MaxZone == 64
\* largest number of lines of a metadata file handed to extractProjectionInfo
MaxLines == 3

(***************************************************************************)
(* Characters and std::string primitives.                                  *)
(***************************************************************************)
Npos == 0 - 1

\* the integer range of int (std::stoi throws std::out_of_range outside it)
IntMax == 2147483647

\* the characters of the model, in ASCII order
AsciiOrder ==
    << "\t", " ", "\"", "+", ",", "-", ".", "/",
       "0", "1", "2", "3", "4", "5", "6", "7", "8", "9", ":", "=",
       "A", "B", "C", "D", "E", "F", "G", "H", "I", "J", "K", "L", "M",
       "N", "O", "P", "Q", "R", "S", "T", "U", "V", "W", "X", "Y", "Z",
       "\\", "_",
       "a", "b", "c", "d", "e", "f", "g", "h", "i", "j", "k", "l", "m",
       "n", "o", "p", "q", "r", "s", "t", "u", "v", "w", "x", "y", "z" >>

Code(c) == CHOOSE i \in 1..Len(AsciiOrder) : AsciiOrder[i] = c

DigitChars == << "0", "1", "2", "3", "4", "5", "6", "7", "8", "9" >>

IsDigit(c) == \E i \in 1..10 : DigitChars[i] = c

DigitVal(c) == (CHOOSE i \in 1..10 : DigitChars[i] = c) - 1

\* the blanks of find_first_not_of(" \t") / find_last_not_of(" \t")
Blank == { " ", "\t" }

\* the characters std::isspace accepts
WhiteSpace == { " ", "\t", "\n", "\r", "\f" }

Min(a, b) == IF a < b THEN a ELSE b

\* s.substr(pos): defined for pos <= s.size() (the callers test SubstrThrows)
SubstrFrom(s, pos) == SubSeq(s, pos + 1, Len(s))

\* s.substr(pos, n)
Substr(s, pos, n) == SubSeq(s, pos + 1, Min(Len(s), pos + n))

\* s.substr(pos, ...) throws std::out_of_range when pos > s.size(); npos is
\* the largest size_t
SubstrThrows(s, pos) == pos = Npos \/ pos > Len(s)

\* p occurs in s at 0-based position i
OccursAt(s, p, i) ==
    /\ i + Len(p) <= Len(s)
    /\ \A k \in 1..Len(p) : s[i + k] = p[k]

\* s.find(p)
Find(s, p) ==
    IF \E i \in 0..Len(s) : OccursAt(s, p, i)
    THEN CHOOSE i \in 0..Len(s) :
            /\ OccursAt(s, p, i)
            /\ \A j \in 0..(i - 1) : ~OccursAt(s, p, j)
    ELSE Npos

\* s.find_last_of(cs), cs a set of characters
FindLastOf(s, cs) ==
    IF \E i \in 1..Len(s) : s[i] \in cs
    THEN (CHOOSE i \in 1..Len(s) :
            /\ s[i] \in cs
            /\ \A j \in (i + 1)..Len(s) : s[j] \notin cs) - 1
    ELSE Npos

\* s.find_first_not_of(cs)
FindFirstNotOf(s, cs) ==
    IF \E i \in 1..Len(s) : s[i] \notin cs
    THEN (CHOOSE i \in 1..Len(s) :
            /\ s[i] \notin cs
            /\ \A j \in 1..(i - 1) : s[j] \in cs) - 1
    ELSE Npos

\* s.find_last_not_of(cs)
FindLastNotOf(s, cs) ==
    IF \E i \in 1..Len(s) : s[i] \notin cs
    THEN (CHOOSE i \in 1..Len(s) :
            /\ s[i] \notin cs
            /\ \A j \in (i + 1)..Len(s) : s[j] \in cs) - 1
    ELSE Npos

\* operator< of std::string: lexicographic on the character codes
StrLess(a, b) ==
    LET n    == Min(Len(a), Len(b))
        diff == { i \in 1..n : a[i] # b[i] }
    IN  IF diff = { } THEN Len(a) < Len(b)
        ELSE LET i == CHOOSE j \in diff : \A k \in diff : j <= k
             IN  Code(a[i]) < Code(b[i])

\* std::to_string of a non-negative int
RECURSIVE to_string(_)
to_string(n) ==
    IF n < 10 THEN << DigitChars[n + 1] >>
    ELSE to_string(n \div 10) \o << DigitChars[(n % 10) + 1] >>

\* the signed value of a run of decimal digits (sign is 1 or -1), or
\* Overflow when it leaves the range of int: INT_MAX ends in 7, INT_MIN in 8
Overflow == [thrown |-> TRUE, value |-> 0]

RECURSIVE DigitsValue(_, _, _)
DigitsValue(ds, acc, sign) ==
    IF ds = << >> THEN [thrown |-> FALSE, value |-> acc]
    ELSE LET d       == DigitVal(ds[1])
             q       == IntMax \div 10
             lastMax == IF sign = 1 THEN IntMax % 10 ELSE (IntMax % 10) + 1
         IN  IF sign * acc < q \/ (sign * acc = q /\ d <= lastMax)
             THEN DigitsValue(Tail(ds), 10 * acc + sign * d, sign)
             ELSE Overflow

\* the longest prefix of s made of digits
RECURSIVE DigitPrefix(_)
DigitPrefix(s) ==
    IF s = << >> \/ ~IsDigit(s[1]) THEN << >>
    ELSE << s[1] >> \o DigitPrefix(Tail(s))

\* the conversion of the digits ds found behind the sign
StoiDigits(ds, sign) ==
    IF ds = << >> THEN [thrown |-> TRUE, value |-> 0]
    ELSE DigitsValue(ds, 0, sign)

\* the conversion of body, the text behind the leading white space
StoiSigned(body) ==
    IF body # << >> /\ body[1] = "-" THEN StoiDigits(DigitPrefix(Tail(body)), 0 - 1)
    ELSE IF body # << >> /\ body[1] = "+" THEN StoiDigits(DigitPrefix(Tail(body)), 1)
    ELSE StoiDigits(DigitPrefix(body), 1)

\* s without its first n characters; nothing is left when n is npos
EraseFront(s, n) == IF n = Npos THEN << >> ELSE SubstrFrom(s, Min(n, Len(s)))

\* std::stoi(s): leading white space is skipped, then an optional sign and
\* the longest run of digits are converted.  thrown: no digit was found
\* (std::invalid_argument) or the value is no int (std::out_of_range).
Stoi(s) == StoiSigned(EraseFront(s, FindFirstNotOf(s, WhiteSpace)))

(***************************************************************************)
(* utils.cpp: split_by_commas.                                             *)
(***************************************************************************)
\* PushToken without the test of line 44 / 53: empty tokens are kept
PushTokenAlways(result, token) == Append(result, token)

\* a token is pushed only when it is not empty
PushToken(result, token) ==
    IF token # << >> THEN Append(result, token) ELSE result

\* the loop of split_by_commas from position i (1-based) with the result
\* and the token built so far
RECURSIVE SplitLoop(_, _, _, _)
SplitLoop(input, i, result, token) ==
    IF i > Len(input) THEN PushToken(result, token)
    ELSE IF input[i] = ","
         THEN SplitLoop(input, i + 1, PushToken(result, token), << >>)
         ELSE SplitLoop(input, i + 1, result, Append(token, input[i]))

split_by_commas(input) == SplitLoop(input, 1, << >>, << >>)

(***************************************************************************)
(* utils.cpp: splitPath.                                                   *)
(***************************************************************************)
\* PathParts parts; (four empty strings)
EmptyParts ==
    [directory |-> << >>, basename |-> << >>, stem |-> << >>, extension |-> << >>]

\* SplitAtDot with the extension taken behind the dot
SplitAtDotDropsDot(directory, basename, dotPos) ==
    [directory |-> directory,
     basename  |-> basename,
     stem      |-> IF dotPos = Npos THEN basename ELSE Substr(basename, 0, dotPos),
     extension |-> IF dotPos = Npos THEN << >> ELSE SubstrFrom(basename, dotPos + 1)]

\* lines 95-101: the stem and the extension, dotPos the last dot of basename
SplitAtDot(directory, basename, dotPos) ==
    [directory |-> directory,
     basename  |-> basename,
     stem      |-> IF dotPos = Npos THEN basename ELSE Substr(basename, 0, dotPos),
     extension |-> IF dotPos = Npos THEN << >> ELSE SubstrFrom(basename, dotPos)]

SplitBasename(directory, basename) ==
    SplitAtDot(directory, basename, FindLastOf(basename, { "." }))

\* lines 86-92: the directory and the basename, slashPos the last separator
SplitAtSlash(path, slashPos) ==
    IF slashPos = Npos THEN SplitBasename(<< >>, path)
    ELSE SplitBasename(Substr(path, 0, slashPos), SubstrFrom(path, slashPos + 1))

splitPath(path) == SplitAtSlash(path, FindLastOf(path, { "/", "\\" }))

\* bool find_pattern(filename, pattern)
find_pattern(filename, pattern) == Find(filename, pattern) # Npos

(***************************************************************************)
(* utils.cpp: the metadata parser.                                         *)
(***************************************************************************)
KeyProjection ==
    << "M", "A", "P", "_", "P", "R", "O", "J", "E", "C", "T", "I", "O", "N" >>

KeyZone ==
    << "U", "T", "M", "_", "Z", "O", "N", "E" >>

\* result.erase(pos): keeps the first pos characters
EraseFrom(s, pos) == Substr(s, 0, pos)

\* lines 232-235: a leading double quote is removed
StripLeadingQuote(r) == IF r # << >> /\ r[1] = "\"" THEN Tail(r) ELSE r

\* lines 237-240: a trailing double quote is removed
StripTrailingQuote(r) ==
    IF r # << >> /\ r[Len(r)] = "\"" THEN Substr(r, 0, Len(r) - 1) ELSE r

\* lines 229-230: the trailing blanks are removed
StripTrailingBlanks(r) == EraseFrom(r, FindLastNotOf(r, Blank) + 1)

\* lines 226-227: the leading blanks are removed
StripLeadingBlanks(r) == EraseFront(r, FindFirstNotOf(r, Blank))

stripString(input) ==
    StripTrailingQuote(StripLeadingQuote(StripTrailingBlanks(StripLeadingBlanks(input))))

\* the text after the first "=" of the line: line.substr(line.find("=") + 1)
\* (the whole line when it has no "=": npos + 1 is 0)
ValueOf(line) == SubstrFrom(line, Find(line, << "=" >>) + 1)

Fields(thrown, projection, utmZone) ==
    [thrown |-> thrown, projection |-> projection, utmZone |-> utmZone]

\* lines 199-206: the zone of a line that holds the key; z is what
\* std::stoi makes of its value
ZoneOf(projection, utmZone, z) ==
    IF z.thrown THEN Fields(TRUE, projection, utmZone)
    ELSE Fields(FALSE, projection, z.value)

\* lines 188-206 on the trimmed line
ScanTrimmed(line, projection, utmZone) ==
    IF Find(line, KeyZone) # Npos
    THEN ZoneOf(IF Find(line, KeyProjection) # Npos
                THEN stripString(ValueOf(line)) ELSE projection,
                utmZone, Stoi(ValueOf(line)))
    ELSE Fields(FALSE,
                IF Find(line, KeyProjection) # Npos
                THEN stripString(ValueOf(line)) ELSE projection,
                utmZone)

\* line 186: line.substr(first, last + 1), first and last the positions of
\* the first and the last character that is no blank; substr throws
\* std::out_of_range on a line with nothing but blanks (first is npos)
TrimAndScan(raw, first, last, projection, utmZone) ==
    IF SubstrThrows(raw, first) THEN Fields(TRUE, projection, utmZone)
    ELSE ScanTrimmed(Substr(raw, first, last + 1), projection, utmZone)

\* the body of the getline loop for one line, from the fields found so far.
\* thrown: an exception left extractProjectionInfo.
ScanLine(raw, projection, utmZone) ==
    TrimAndScan(raw, FindFirstNotOf(raw, Blank), FindLastNotOf(raw, Blank),
                projection, utmZone)

\* lines 209 and 219: both fields are populated
BothFound(projection, utmZone) == projection # << >> /\ utmZone # 0

\* lines 184-213: the getline loop from line i (1-based), r the fields
\* found so far; it stops at the first line after which both fields are
\* populated
RECURSIVE ScanLines(_, _, _)
RECURSIVE ScanNext(_, _, _)
ScanNext(lines, i, r) ==
    IF r.thrown \/ BothFound(r.projection, r.utmZone) THEN r
    ELSE ScanLines(lines, i + 1, r)

ScanLines(lines, i, r) ==
    IF i > Len(lines) THEN r
    ELSE ScanNext(lines, i, ScanLine(lines[i], r.projection, r.utmZone))

Extracted(r) ==
    [thrown |-> r.thrown, ok |-> ~r.thrown /\ BothFound(r.projection, r.utmZone),
     projection |-> r.projection, utmZone |-> r.utmZone]

\* bool extractProjectionInfo(filename, projection&, utmZone&) on a file
\* ([readable, lines]); ok is the value returned when nothing is thrown
extractProjectionInfo(file, projection, utmZone) ==
    IF ~file.readable
    THEN [thrown |-> FALSE, ok |-> FALSE, projection |-> projection, utmZone |-> utmZone]
    ELSE Extracted(ScanLines(file.lines, 1, Fields(FALSE, projection, utmZone)))

(***************************************************************************)
(* utils.cpp: CRS resolution.                                              *)
(***************************************************************************)
EpsgPrefix ==
    << "E", "P", "S", "G", ":" >>

\* getEPSGFromUTMZone with the lower limit of line 249 at 0
getEPSGFromUTMZoneFromZero(zone, isSouthernHemisphere) ==
    IF zone < 0 \/ zone > 60 THEN << >>
    ELSE EpsgPrefix \o
         to_string(IF isSouthernHemisphere THEN 32700 + zone ELSE 32600 + zone)

\* the empty string is the failure value
getEPSGFromUTMZone(zone, isSouthernHemisphere) ==
    IF zone < 1 \/ zone > 60 THEN << >>
    ELSE EpsgPrefix \o
         to_string(IF isSouthernHemisphere THEN 32700 + zone ELSE 32600 + zone)

\* epsgStr.compare(0, prefix.size(), prefix) != 0
BadPrefix(epsgStr) == Substr(epsgStr, 0, Len(EpsgPrefix)) # EpsgPrefix

\* lines 318-322: what std::stoi gave, -1 when it threw
CodeOrFailure(r) == IF r.thrown THEN 0 - 1 ELSE r.value

parseEPSG(epsgStr) ==
    IF BadPrefix(epsgStr) THEN 0 - 1
    ELSE CodeOrFailure(Stoi(SubstrFrom(epsgStr, Len(EpsgPrefix))))

(***************************************************************************)
(* The environment of a run: the command line, the input directory and the *)
(* mask file.                                                              *)
(***************************************************************************)
VARIABLES
    argv,          \* the option values of the command line (empty: not given)
    dir,           \* the input directory: entry name -> [readable, lines]
    envelope,      \* the envelope of the first feature of the mask file
    input_dir, output_dir, source_crs, mask_subset, datasets, pattern, label,
    list_datasets,
    minX, minY, maxX, maxY,
    list_files,
    bi, fi,        \* positions of the band loop and of the file loop (1-based)
    file_parts,
    epsgCode,
    clip_calls,    \* the calls of clipRasterByBBox so far, in order
    pc,            \* the place in main
    status,        \* "running", "EXIT_SUCCESS", "EXIT_FAILURE" or "terminate"
    arg, ret, returned   \* a single call of a utility function

driver == << argv, dir, envelope, input_dir, output_dir, source_crs, mask_subset,
             datasets, pattern, label, list_datasets, minX, minY, maxX, maxY,
             list_files, bi, fi, file_parts, epsgCode, clip_calls, pc, status >>

vars == << driver, arg, ret, returned >>

Scene1 ==
    << "L", "C", "0", "8", "_", "L", "2", "S", "P", "_", "0", "2", "1", "0",
       "4", "7", "_", "2", "0", "2", "5", "0", "9", "2", "3", "_", "2", "0",
       "2", "5", "1", "0", "0", "1", "_", "0", "2", "_", "T", "1" >>

Scene2 ==
    << "L", "C", "0", "9", "_", "L", "2", "S", "P", "_", "0", "2", "1", "0",
       "4", "7", "_", "2", "0", "2", "5", "0", "9", "2", "3", "_", "2", "0",
       "2", "5", "1", "0", "0", "1", "_", "0", "2", "_", "T", "1" >>

MtlSuffix ==
    << "_", "M", "T", "L", ".", "t", "x", "t" >>

TifExt ==
    << ".", "t", "i", "f" >>

\* the entries the input directory may hold besides the metadata files
RasterUniverse ==
    { Scene1 \o << "_", "B", "1", ".", "t", "i", "f" >>,
      Scene1 \o << "_", "B", "1", "0", ".", "t", "i", "f" >>,
      Scene2 \o << "_", "B", "1", ".", "t", "i", "f" >>,
      << "a", "_", "B", "2", "_", "B", "1", ".", "t", "i", "f" >>,
      << "a", "_", "B", "1", ".", "x", "m", "l" >> }

LineGroup ==
    << " ", " ", "G", "R", "O", "U", "P", " ", "=", " ", "P", "R", "O", "J",
       "E", "C", "T", "I", "O", "N", "_", "A", "T", "T", "R", "I", "B", "U",
       "T", "E", "S" >>

LineProjection ==
    << " ", " ", " ", " ", "M", "A", "P", "_", "P", "R", "O", "J", "E", "C",
       "T", "I", "O", "N", " ", "=", " ", "\"", "U", "T", "M", "\"" >>

LineZone(digits) ==
    << " ", " ", " ", " ", "U", "T", "M", "_", "Z", "O", "N", "E", " ", "=", " " >>
        \o digits

TextFile(lines) == [readable |-> TRUE, lines |-> lines]

Unreadable == [readable |-> FALSE, lines |-> << >>]

\* the metadata files of the first scene: a valid zone, a zone outside
\* 1..60, no zone key, a zone that is no number, a blank line, unreadable
Scene1Metadata ==
    { TextFile(<< LineGroup, LineProjection, LineZone(<< "1", "2" >>) >>),
      TextFile(<< LineProjection, LineZone(<< "6", "1" >>) >>),
      TextFile(<< LineGroup, LineProjection >>),
      TextFile(<< LineProjection, LineZone(<< "x" >>) >>),
      TextFile(<< LineProjection, << >>, LineZone(<< "1", "2" >>) >>),
      Unreadable }

Scene2Metadata ==
    { TextFile(<< LineZone(<< "1", "5" >>), LineProjection >>) }

\* a directory: at most MaxFiles entries of RasterUniverse and, for each
\* scene, possibly its metadata file
Directories ==
    UNION { [D -> { TextFile(<< >>) }] :
            D \in { X \in SUBSET RasterUniverse : Cardinality(X) <= MaxFiles } }

WithMetadata(d, name, files) ==
    { d } \cup { [n \in DOMAIN d \cup { name } |-> IF n = name THEN f ELSE d[n]] :
                  f \in files }

AllDirectories ==
    UNION { WithMetadata(d1, Scene2 \o MtlSuffix, Scene2Metadata) :
            d1 \in UNION { WithMetadata(d, Scene1 \o MtlSuffix, Scene1Metadata) :
                           d \in Directories } }

\* the directories that exist, as the command line may name them
ExistingDirs == { << "i" >>, << "i", "/" >>, << "o" >>, << "o", "/" >> }

\* bool directory_exists(path)
directory_exists(path) == path \in ExistingDirs

\* the input directory as the file system names it
InputRoot == << "i", "/" >>

\* path names an entry of the input directory
InInputDir(path) ==
    /\ Substr(path, 0, Len(InputRoot)) = InputRoot
    /\ SubstrFrom(path, Len(InputRoot)) \in DOMAIN dir

\* the file a path of the input directory names
FileAt(path) == dir[SubstrFrom(path, Len(InputRoot))]

\* bool fileExists(filename): the stream opened on it is good
fileExists(filename) == InInputDir(filename) /\ FileAt(filename).readable

\* dirPath + name, with "/" between them when dirPath does not end in one
JoinDir(dirPath, name) ==
    IF dirPath[Len(dirPath)] # "/" THEN dirPath \o << "/" >> \o name
    ELSE dirPath \o name

\* lines 160-165: the name is returned when the file exists
ExistingOrEmpty(metadataFilename) ==
    IF ~fileExists(metadataFilename) THEN << >> ELSE metadataFilename

locateMetadataFile(dirPath, tifFilename) ==
    ExistingOrEmpty(JoinDir(dirPath, Substr(tifFilename, 0, 40) \o MtlSuffix))

(***************************************************************************)
(* main.cpp: the driver.                                                   *)
(***************************************************************************)
\* the orders readdir may list a set of entries in
RECURSIVE Orderings(_)
Orderings(S) ==
    IF S = { } THEN { << >> }
    ELSE UNION { { << x >> \o o : o \in Orderings(S \ { x }) } : x \in S }

\* std::vector<std::string> listFilesInDirectory(dirPath): "." and ".." are
\* left out, the order is the one readdir gives
listFilesInDirectory(order) == order

\* x put in its place in the sorted sequence s
RECURSIVE Insert(_, _)
Insert(x, s) ==
    IF s = << >> THEN << x >>
    ELSE IF StrLess(x, s[1]) THEN << x >> \o s
    ELSE << s[1] >> \o Insert(x, Tail(s))

RECURSIVE SortedFrom(_, _)
SortedFrom(s, acc) ==
    IF s = << >> THEN acc ELSE SortedFrom(Tail(s), Insert(s[1], acc))

\* StdSort left out: the list stays in the order of readdir
StdSortSkipped(s) == s

\* std::sort(list_files.begin(), list_files.end())
StdSort(s) == SortedFrom(s, << >>)

\* InflateMin with the sign of the margin turned
InflateMinAdds(v) == v + 31

\* the extent is inflated by 31 on every side
InflateMin(v) == v - 31

InflateMax(v) == v + 31

\* lines 198-220: the file passes the pattern filter, the band filter and
\* the extension test
PassesFilters(fname, band) ==
    /\ pattern = << >> \/ find_pattern(fname, pattern)
    /\ find_pattern(fname, << "_" >> \o band)
    /\ splitPath(fname).extension = TifExt

\* the least element of a set of positions, 0 for the empty set
LeastOrZero(S) == IF S = { } THEN 0 ELSE CHOOSE j \in S : \A k \in S : j <= k

\* the next position after i of the file loop that reaches line 222, or 0
NextSelected(i, band) ==
    LeastOrZero({ j \in (i + 1)..Len(list_files) : PassesFilters(list_files[j], band) })

\* line 227: the fields extractProjectionInfo finds at metadataPath; the
\* call is skipped when locateMetadataFile returned the empty string
ExtractAt(metadataPath) ==
    IF metadataPath = << >>
    THEN [thrown |-> FALSE, ok |-> FALSE, projection |-> << >>, utmZone |-> 0]
    ELSE extractProjectionInfo(FileAt(metadataPath), << >>, 0)

\* lines 222-227 on a file of the list: what the metadata gives
MetadataOf(idir, fname) == ExtractAt(locateMetadataFile(idir, fname))

\* UpdateSourceCRS with the comparison of line 232 turned into ==
UpdateSourceCRSEqual(crs, temp_crs) ==
    IF temp_crs # << >> /\ crs = temp_crs THEN temp_crs ELSE crs

\* lines 230-236: a valid temp_crs that differs replaces the source CRS
UpdateSourceCRS(crs, temp_crs) ==
    IF temp_crs # << >> /\ crs # temp_crs THEN temp_crs ELSE crs

\* the source CRS after the metadata step
ResolvedCRS(crs, meta) ==
    IF meta.ok THEN UpdateSourceCRS(crs, getEPSGFromUTMZone(meta.utmZone, FALSE))
    ELSE crs

\* lines 249-252
InFile(idir, parts) == JoinDir(idir, parts.stem \o parts.extension)

\* lines 254-257: the separator is decided by the input directory
OutFile(idir, odir, parts, lbl) ==
    IF idir[Len(idir)] # "/"
    THEN odir \o << "/" >> \o parts.stem \o lbl \o parts.extension
    ELSE odir \o parts.stem \o lbl \o parts.extension

\* AfterClip without the test of line 264: the loop goes on
AfterClipContinues(ok) == "file"

\* lines 264-267: the exit taken after clipRasterByBBox returned ok
AfterClip(ok) == IF ok THEN "file" ELSE "done"

Exit(code) == pc' = "done" /\ status' = code

\* lines 50-92: the options are stored
ParseArgs ==
    /\ pc = "start"
    /\ input_dir' = argv.i /\ output_dir' = argv.o /\ source_crs' = argv.c
    /\ mask_subset' = argv.m /\ datasets' = argv.d
    /\ pattern' = argv.p /\ label' = argv.n
    /\ pc' = "args"
    /\ UNCHANGED << argv, dir, envelope, list_datasets, minX, minY, maxX, maxY,
                    list_files, bi, fi, file_parts, epsgCode, clip_calls, status,
                    arg, ret, returned >>

ArgsOK ==
    /\ input_dir # << >> /\ output_dir # << >> /\ source_crs # << >>
    /\ mask_subset # << >> /\ datasets # << >>
    /\ directory_exists(input_dir) /\ directory_exists(output_dir)

\* lines 98-150: a required option is missing or a directory does not exist
RejectArgs ==
    /\ pc = "args" /\ ~ArgsOK
    /\ Exit("EXIT_FAILURE")
    /\ UNCHANGED << argv, dir, envelope, input_dir, output_dir, source_crs,
                    mask_subset, datasets, pattern, label, list_datasets,
                    minX, minY, maxX, maxY, list_files, bi, fi, file_parts,
                    epsgCode, clip_calls, arg, ret, returned >>

\* lines 98-162 with datasets that split into nothing
NoDatasets ==
    /\ pc = "args" /\ ArgsOK
    /\ split_by_commas(datasets) = << >>
    /\ list_datasets' = << >>
    /\ Exit("EXIT_FAILURE")
    /\ UNCHANGED << argv, dir, envelope, input_dir, output_dir, source_crs,
                    mask_subset, datasets, pattern, label,
                    minX, minY, maxX, maxY, list_files, bi, fi, file_parts,
                    epsgCode, clip_calls, arg, ret, returned >>

\* lines 98-167
AcceptArgs ==
    /\ pc = "args" /\ ArgsOK
    /\ split_by_commas(datasets) # << >>
    /\ list_datasets' = split_by_commas(datasets)
    /\ pc' = "extent"
    /\ UNCHANGED << argv, dir, envelope, input_dir, output_dir, source_crs,
                    mask_subset, datasets, pattern, label,
                    minX, minY, maxX, maxY, list_files, bi, fi, file_parts,
                    epsgCode, clip_calls, status, arg, ret, returned >>

\* lines 175-187, getShapefileExtent failed (the mask cannot be read, has
\* no layer, no feature or no geometry)
ExtentFails ==
    /\ pc = "extent"
    /\ Exit("EXIT_FAILURE")
    /\ UNCHANGED << argv, dir, envelope, input_dir, output_dir, source_crs,
                    mask_subset, datasets, pattern, label, list_datasets,
                    minX, minY, maxX, maxY, list_files, bi, fi, file_parts,
                    epsgCode, clip_calls, arg, ret, returned >>

\* lines 175-190: the extent is read and inflated, the directory is listed
\* and the list is sorted
ReadExtent ==
    /\ pc = "extent"
    /\ minX' = InflateMin(envelope.minX) /\ minY' = InflateMin(envelope.minY)
    /\ maxX' = InflateMax(envelope.maxX) /\ maxY' = InflateMax(envelope.maxY)
    /\ \E order \in Orderings(DOMAIN dir) :
          list_files' = StdSort(listFilesInDirectory(order))
    /\ bi' = 0 /\ fi' = 0
    /\ pc' = "band"
    /\ UNCHANGED << argv, dir, envelope, input_dir, output_dir, source_crs,
                    mask_subset, datasets, pattern, label, list_datasets,
                    file_parts, epsgCode, clip_calls, status, arg, ret, returned >>

\* line 192: the next band
NextBand ==
    /\ pc = "band" /\ bi < Len(list_datasets)
    /\ bi' = bi + 1 /\ fi' = 0
    /\ pc' = "file"
    /\ UNCHANGED << argv, dir, envelope, input_dir, output_dir, source_crs,
                    mask_subset, datasets, pattern, label, list_datasets,
                    minX, minY, maxX, maxY, list_files, file_parts, epsgCode,
                    clip_calls, status, arg, ret, returned >>

\* lines 271-272: every band is done
Finish ==
    /\ pc = "band" /\ bi = Len(list_datasets)
    /\ Exit("EXIT_SUCCESS")
    /\ UNCHANGED << argv, dir, envelope, input_dir, output_dir, source_crs,
                    mask_subset, datasets, pattern, label, list_datasets,
                    minX, minY, maxX, maxY, list_files, bi, fi, file_parts,
                    epsgCode, clip_calls, arg, ret, returned >>

\* lines 196-220: the files that fail a filter are passed over, up to the
\* next one that reaches the metadata step
SelectFile ==
    /\ pc = "file"
    /\ fi' = NextSelected(fi, list_datasets[bi])
    /\ fi' # 0
    /\ file_parts' = splitPath(list_files[fi'])
    /\ pc' = "meta"
    /\ UNCHANGED << argv, dir, envelope, input_dir, output_dir, source_crs,
                    mask_subset, datasets, pattern, label, list_datasets,
                    minX, minY, maxX, maxY, list_files, bi, epsgCode,
                    clip_calls, status, arg, ret, returned >>

\* lines 196-220: no file is left for this band
EndOfFiles ==
    /\ pc = "file"
    /\ NextSelected(fi, list_datasets[bi]) = 0
    /\ fi' = Len(list_files)
    /\ pc' = "band"
    /\ UNCHANGED << argv, dir, envelope, input_dir, output_dir, source_crs,
                    mask_subset, datasets, pattern, label, list_datasets,
                    minX, minY, maxX, maxY, list_files, bi, file_parts, epsgCode,
                    clip_calls, status, arg, ret, returned >>

\* lines 226-227: an exception leaves extractProjectionInfo; nothing
\* catches it and std::terminate ends the process
MetadataThrows ==
    /\ pc = "meta"
    /\ MetadataOf(input_dir, list_files[fi]).thrown
    /\ Exit("terminate")
    /\ UNCHANGED << argv, dir, envelope, input_dir, output_dir, source_crs,
                    mask_subset, datasets, pattern, label, list_datasets,
                    minX, minY, maxX, maxY, list_files, bi, fi, file_parts,
                    epsgCode, clip_calls, arg, ret, returned >>

\* lines 227-242: the source CRS is settled from the metadata and parsed
Resolve(meta) ==
    /\ ~meta.thrown
    /\ source_crs' = ResolvedCRS(source_crs, meta)
    /\ epsgCode' = parseEPSG(source_crs')

\* EpsgRejected testing for 0 instead of -1
EpsgRejectedZero(code) == code = 0

\* line 243: parseEPSG reported a failure
EpsgRejected(code) == code = 0 - 1

\* lines 222-246: the source CRS does not parse
EPSGFails ==
    /\ pc = "meta"
    /\ Resolve(MetadataOf(input_dir, list_files[fi]))
    /\ EpsgRejected(epsgCode')
    /\ Exit("EXIT_FAILURE")
    /\ UNCHANGED << argv, dir, envelope, input_dir, output_dir,
                    mask_subset, datasets, pattern, label, list_datasets,
                    minX, minY, maxX, maxY, list_files, bi, fi, file_parts,
                    clip_calls, arg, ret, returned >>

\* lines 222-246: the source CRS parses
ResolveCRS ==
    /\ pc = "meta"
    /\ Resolve(MetadataOf(input_dir, list_files[fi]))
    /\ ~EpsgRejected(epsgCode')
    /\ pc' = "clip"
    /\ UNCHANGED << argv, dir, envelope, input_dir, output_dir,
                    mask_subset, datasets, pattern, label, list_datasets,
                    minX, minY, maxX, maxY, list_files, bi, fi, file_parts,
                    clip_calls, status, arg, ret, returned >>

\* lines 248-267: the paths are built and clipRasterByBBox is called; ok is
\* what it returns
Clip(ok) ==
    /\ pc = "clip"
    /\ clip_calls' = Append(clip_calls,
          [band     |-> list_datasets[bi],
           position |-> bi,
           fname    |-> list_files[fi],
           inFile   |-> InFile(input_dir, file_parts),
           outFile  |-> OutFile(input_dir, output_dir, file_parts, label),
           minX |-> minX, minY |-> minY, maxX |-> maxX, maxY |-> maxY,
           epsgCode |-> epsgCode,
           ok       |-> ok])
    /\ pc' = AfterClip(ok)
    /\ status' = IF pc' = "done" THEN "EXIT_FAILURE" ELSE status
    /\ UNCHANGED << argv, dir, envelope, input_dir, output_dir, source_crs,
                    mask_subset, datasets, pattern, label, list_datasets,
                    minX, minY, maxX, maxY, list_files, bi, fi, file_parts,
                    epsgCode, arg, ret, returned >>

ClipSucceeds == Clip(TRUE)

ClipFails == Clip(FALSE)

(***************************************************************************)
(* The runs of the driver.                                                 *)
(***************************************************************************)
Envelopes ==
    { [minX |-> 100, minY |-> 100, maxX |-> 200, maxY |-> 200],
      [minX |-> 0 - 5, minY |-> 40, maxX |-> 10, maxY |-> 50] }

CrsEPSG(digits) == EpsgPrefix \o digits

Crs32615 == CrsEPSG(<< "3", "2", "6", "1", "5" >>)

InputDirs == { << "i" >>, << "i", "/" >> }

OutputDirs == { << "o" >>, << "o", "/" >> }

DatasetLists ==
    { << "B", "1", ",", "B", "1", "0" >>,
      << "B", "2", ",", ",", "B", "1" >>,
      << "B", "1", ",", "B", "1" >> }

\* command lines that exercise the file selection and the paths, on
\* directories without metadata
SelectionArgv ==
    [ i : InputDirs, o : OutputDirs, c : { Crs32615 }, m : { << "m" >> },
      d : DatasetLists,
      p : { << >>, << "L", "C", "0", "8" >> },
      n : { << >>, << "_", "c" >> } ]

\* command lines that exercise the CRS resolution, on directories with
\* metadata: a source CRS that parses, one without the prefix
CrsArgv ==
    [ i : InputDirs, o : { << "o" >> },
      c : { Crs32615, << "3", "2", "6", "1", "5" >> },
      m : { << "m" >> },
      d : { << "B", "1", ",", "B", "1", "0" >>, << "B", "1", ",", "B", "1" >> },
      p : { << >> }, n : { << >> } ]

BaseArgv ==
    [ i |-> << "i" >>, o |-> << "o" >>, c |-> Crs32615,
      m |-> << "m" >>, d |-> << "B", "1" >>, p |-> << >>, n |-> << >> ]

\* command lines with an option missing, a directory that does not exist or
\* datasets that hold no name
InvalidArgv ==
    { [BaseArgv EXCEPT !.i = v] : v \in { << >>, << "q" >> } }
    \cup { [BaseArgv EXCEPT !.o = v] : v \in { << >>, << "q" >> } }
    \cup { [BaseArgv EXCEPT !.c = << >>], [BaseArgv EXCEPT !.m = << >>] }
    \cup { [BaseArgv EXCEPT !.d = v] : v \in { << >>, << ",", "," >> } }

BaseEnvelope == [minX |-> 100, minY |-> 100, maxX |-> 200, maxY |-> 200]

NoCall == arg = << >> /\ ret = << >> /\ returned = FALSE

\* the state at the entry of main
AtEntry ==
    /\ input_dir = << >> /\ output_dir = << >> /\ source_crs = << >>
    /\ mask_subset = << >> /\ datasets = << >> /\ pattern = << >> /\ label = << >>
    /\ list_datasets = << >>
    /\ minX = 0 /\ minY = 0 /\ maxX = 0 /\ maxY = 0
    /\ list_files = << >>
    /\ bi = 0 /\ fi = 0
    /\ file_parts = EmptyParts
    /\ epsgCode = 0
    /\ clip_calls = << >>
    /\ pc = "start" /\ status = "running"

Init ==
    /\ \/ argv \in SelectionArgv /\ dir \in Directories /\ envelope \in Envelopes
       \/ argv \in CrsArgv /\ dir \in AllDirectories /\ envelope = BaseEnvelope
       \/ argv \in InvalidArgv /\ dir \in Directories /\ envelope = BaseEnvelope
    /\ AtEntry
    /\ NoCall

Next ==
    \/ ParseArgs \/ RejectArgs \/ NoDatasets \/ AcceptArgs
    \/ ExtentFails \/ ReadExtent
    \/ NextBand \/ Finish \/ SelectFile \/ EndOfFiles
    \/ MetadataThrows \/ EPSGFails \/ ResolveCRS
    \/ ClipSucceeds \/ ClipFails

Spec == Init /\ [][Next]_vars

(***************************************************************************)
(* Single calls of the utility functions.                                  *)
(***************************************************************************)
\* the strings over the characters A of length at most n
StringsUpTo(A, n) == UNION { [1..k -> A] : k \in 0..n }

\* the driver does not run
Idle ==
    /\ argv = BaseArgv
    /\ dir = [n \in { } |-> Unreadable]
    /\ envelope = BaseEnvelope
    /\ AtEntry

InitSplit ==
    /\ Idle
    /\ arg \in StringsUpTo({ "a", "b", ",", " " }, MaxLen)
    /\ ret = << >>
    /\ returned = FALSE

CallSplit ==
    /\ ~returned
    /\ ret' = split_by_commas(arg)
    /\ returned' = TRUE
    /\ UNCHANGED << driver, arg >>

SpecSplit == InitSplit /\ [][CallSplit]_vars

InitPath ==
    /\ Idle
    /\ arg \in StringsUpTo({ "a", ".", "/", "\\" }, MaxLen)
    /\ ret = EmptyParts
    /\ returned = FALSE

CallSplitPath ==
    /\ ~returned
    /\ ret' = splitPath(arg)
    /\ returned' = TRUE
    /\ UNCHANGED << driver, arg >>

SpecPath == InitPath /\ [][CallSplitPath]_vars

(***************************************************************************)
(* Properties of the utility functions.                                    *)
(***************************************************************************)
\* the maximal comma-free non-empty substrings of s, as pairs of their
\* first and last position (1-based)
Runs(s) ==
    { r \in (1..Len(s)) \X (1..Len(s)) :
        /\ r[1] <= r[2]
        /\ \A i \in r[1]..r[2] : s[i] # ","
        /\ r[1] = 1 \/ s[r[1] - 1] = ","
        /\ r[2] = Len(s) \/ s[r[2] + 1] = "," }

\* C9: split_by_commas returns exactly the maximal comma-free substrings of
\* its input that are not empty, in their order from left to right and
\* unmodified (blanks are kept); the result is empty for the empty input and
\* for an input of commas only.
C9_SplitByCommas ==
    returned =>
        /\ Len(ret) = Cardinality(Runs(arg))
        /\ \A k \in 1..Len(ret) :
              \E r \in Runs(arg) :
                 /\ ret[k] = SubSeq(arg, r[1], r[2])
                 /\ Cardinality({ q \in Runs(arg) : q[1] < r[1] }) = k - 1
        /\ (\A i \in 1..Len(arg) : arg[i] = ",") => ret = << >>

\* an input with an empty token between two commas and a token that is a
\* blank has been split
C9_Witness ==
    /\ returned
    /\ arg = << "a", ",", ",", " " >>
    /\ ret = << << "a" >>, << " " >> >>

HasSeparator(path) == \E i \in 1..Len(path) : path[i] \in { "/", "\\" }

HasDot(name) == \E i \in 1..Len(name) : name[i] = "."

\* name from its last dot on
FromLastDot(name) ==
    SubSeq(name,
           CHOOSE i \in 1..Len(name) :
              name[i] = "." /\ \A j \in (i + 1)..Len(name) : name[j] # ".",
           Len(name))

\* C10: for every path given to splitPath, basename = stem + extension; the
\* extension is empty exactly when the basename holds no dot and is
\* otherwise the basename from its last dot on; directory + separator +
\* basename is the path when the path holds a separator, and the basename
\* alone is the path when it holds none.
C10_SplitPath ==
    returned =>
        /\ ret.basename = ret.stem \o ret.extension
        /\ (ret.extension = << >>) <=> ~HasDot(ret.basename)
        /\ HasDot(ret.basename) => ret.extension = FromLastDot(ret.basename)
        /\ HasSeparator(arg) =>
              \E sep \in { "/", "\\" } :
                 ret.directory \o << sep >> \o ret.basename = arg
        /\ ~HasSeparator(arg) => ret.basename = arg

\* a path with a directory, a stem and an extension has been split
C10_Witness ==
    /\ returned
    /\ arg = << "a", "/", "a", "." >>
    /\ ret.directory = << "a" >>
    /\ ret.extension = << "." >>

(***************************************************************************)
(* Properties of the driver.                                               *)
(***************************************************************************)
Calls == 1..Len(clip_calls)

\* C1: the first call of the clip primitive that fails ends the run: the
\* process exits with EXIT_FAILURE and no later call is made, neither for
\* a later file nor for the failed one again.
C1_ClipFailureAborts ==
    \A k \in Calls :
       ~clip_calls[k].ok =>
          /\ k = Len(clip_calls)
          /\ pc = "done"
          /\ status = "EXIT_FAILURE"

\* a call other than the first failed while a file was left to process, in
\* this band or in the next one
C1_Witness ==
    /\ Len(clip_calls) >= 2
    /\ ~clip_calls[Len(clip_calls)].ok
    /\ status = "EXIT_FAILURE"
    /\ \/ NextSelected(fi, list_datasets[bi]) # 0
       \/ bi < Len(list_datasets) /\ NextSelected(0, list_datasets[bi + 1]) # 0

\* the EPSG code of the fields m found for a file when they are valid (both
\* found, zone in 1..60), 0 otherwise
CodeOfFields(m) ==
    IF ~m.thrown /\ m.ok /\ m.utmZone \in 1..60 THEN 32600 + m.utmZone ELSE 0

\* the EPSG code of the metadata of a file when it is valid, 0 otherwise
MetaCode(fname) == CodeOfFields(MetadataOf(argv.i, fname))

\* the calls up to the k-th whose file has valid metadata
ValidUpTo(k) == { j \in 1..k : MetaCode(clip_calls[j].fname) # 0 }

\* the greatest element of a non-empty set of positions
Greatest(S) == CHOOSE j \in S : \A i \in S : i <= j

\* the code to use after the calls V brought valid metadata
CodeAfter(V) ==
    IF V = { } THEN parseEPSG(argv.c)
    ELSE MetaCode(clip_calls[Greatest(V)].fname)

\* the code the k-th call is to use
ExpectedCode(k) == CodeAfter(ValidUpTo(k))

\* C2: every call of the clip primitive uses the code of the most recent
\* valid metadata-derived CRS (EPSG:32600+zone, zone in 1..60) among the
\* files processed so far in the run, the current one included, or of the
\* configured source CRS when no file had one yet: an override is kept for
\* the files and the datasets that follow.
C2_CrsCarriedOver ==
    \A k \in Calls : clip_calls[k].epsgCode = ExpectedCode(k)

\* a file without valid metadata was clipped with the code an earlier file
\* of the run brought, not the configured one
C2_Witness ==
    \E k \in Calls :
       /\ MetaCode(clip_calls[k].fname) = 0
       /\ ValidUpTo(k) # { }
       /\ clip_calls[k].epsgCode = 32612
       /\ parseEPSG(argv.c) = 32615

\* the name of the metadata file of a raster file
Sidecar(fname) == Substr(fname, 0, 40) \o MtlSuffix

Mentions(line, key) == \E i \in 0..Len(line) : OccursAt(line, key, i)

\* the value of a zone line is no number: behind the "=" and the blanks
\* there is no digit, nor a sign and a digit
MalformedZone(line) ==
    /\ Mentions(line, KeyZone)
    /\ Stoi(ValueOf(line)).thrown

\* the metadata of the file is missing, cannot be opened, lacks one of the
\* two keys or carries a malformed zone
MetadataProblem(fname) ==
    \/ Sidecar(fname) \notin DOMAIN dir
    \/ ~dir[Sidecar(fname)].readable
    \/ \A i \in 1..Len(dir[Sidecar(fname)].lines) :
          ~Mentions(dir[Sidecar(fname)].lines[i], KeyProjection)
    \/ \A i \in 1..Len(dir[Sidecar(fname)].lines) :
          ~Mentions(dir[Sidecar(fname)].lines[i], KeyZone)
    \/ \E i \in 1..Len(dir[Sidecar(fname)].lines) :
          MalformedZone(dir[Sidecar(fname)].lines[i])

\* C3: a problem with the metadata of a selected file is never fatal: the
\* metadata step does not end the run, it leaves the source CRS unchanged,
\* and the file goes on to be clipped with the CRS known before.
C3_MetadataNeverFatal ==
    [][ (pc = "meta" /\ MetadataProblem(list_files[fi])) =>
           /\ status' # "terminate"
           /\ source_crs' = source_crs
           /\ parseEPSG(source_crs) # 0 - 1 =>
                 pc' = "clip" /\ epsgCode' = parseEPSG(source_crs) ]_vars

\* s is "EPSG:" followed by one or more digits
IsEpsgForm(s) ==
    /\ Len(s) > Len(EpsgPrefix)
    /\ SubSeq(s, 1, Len(EpsgPrefix)) = EpsgPrefix
    /\ \A i \in (Len(EpsgPrefix) + 1)..Len(s) : IsDigit(s[i])

\* C4 as claimed: a run whose configured source CRS is not of the form
\* "EPSG:<integer>" never calls the clip primitive and ends with
\* EXIT_FAILURE (the runs that an uncaught exception ends are left aside).
C4_BadSourceCrsAlwaysFatal ==
    (~IsEpsgForm(argv.c) /\ status # "terminate") =>
       /\ clip_calls = << >>
       /\ pc = "done" => status = "EXIT_FAILURE"

\* C4 as amended: the code parseEPSG makes of the current source CRS is
\* what is fatal.  When it is the failure value the run ends there with
\* EXIT_FAILURE, before the file is clipped; and in a run whose configured
\* source CRS parseEPSG rejects, a file is clipped only once valid metadata,
\* its own or an earlier file's, has replaced the configured value.
C4_UnresolvedEpsgFatal ==
    /\ epsgCode = 0 - 1 => pc = "done" /\ status = "EXIT_FAILURE"
    /\ \A k \in Calls : clip_calls[k].epsgCode # 0 - 1
    /\ parseEPSG(argv.c) = 0 - 1 => \A k \in Calls : ValidUpTo(k) # { }

\* a run with a configured source CRS that does not parse ended at its
\* first selected file, which brought no valid metadata
C4_Witness ==
    /\ ~IsEpsgForm(argv.c)
    /\ argv.c # << >>
    /\ pc = "done" /\ status = "EXIT_FAILURE"
    /\ epsgCode = 0 - 1
    /\ fi # 0
    /\ MetaCode(list_files[fi]) = 0
    /\ clip_calls = << >>

Contains(str, p) ==
    \E i \in 1..(Len(str) - Len(p) + 1) : SubSeq(str, i, i + Len(p) - 1) = p

EndsWith(str, p) ==
    Len(p) <= Len(str) /\ SubSeq(str, Len(str) - Len(p) + 1, Len(str)) = p

\* the file is to be clipped for the dataset
Wanted(dataset, fname) ==
    /\ argv.p = << >> \/ Contains(fname, argv.p)
    /\ Contains(fname, << "_" >> \o dataset)
    /\ EndsWith(fname, TifExt)

Requested == { list_datasets[j] : j \in 1..Len(list_datasets) }

\* the first position of a dataset in the list
FirstPosition(dataset) ==
    CHOOSE j \in 1..Len(list_datasets) :
       list_datasets[j] = dataset /\ \A i \in 1..(j - 1) : list_datasets[i] # dataset

\* C5 as claimed: in a run that ends with EXIT_SUCCESS the clip primitive
\* was called exactly once for each pair of a dataset and a file whose name
\* holds the pattern, holds "_<band>" and ends in ".tif", and for no other
\* pair, dataset by dataset in the order of the list and in ascending order
\* of the names within a dataset.
C5_OncePerDatasetAndFile ==
    status = "EXIT_SUCCESS" =>
       /\ \A d \in Requested : \A f \in DOMAIN dir :
             Cardinality({ k \in Calls :
                             clip_calls[k].band = d /\ clip_calls[k].fname = f })
                = IF Wanted(d, f) THEN 1 ELSE 0
       /\ \A k \in Calls :
             clip_calls[k].band \in Requested /\ clip_calls[k].fname \in DOMAIN dir
       /\ \A k \in Calls : \A l \in Calls :
             k < l =>
                /\ FirstPosition(clip_calls[k].band) <= FirstPosition(clip_calls[l].band)
                /\ clip_calls[k].band = clip_calls[l].band =>
                      StrLess(clip_calls[k].fname, clip_calls[l].fname)

\* C5 as amended: in a run that ends with EXIT_SUCCESS the clip primitive
\* was called exactly once for each pair of an entry of the dataset list and
\* such a file (a name listed twice is processed twice), and for no other
\* pair, entry by entry in the order of the list and in ascending order of
\* the names within an entry.
C5_OncePerEntryAndFile ==
    status = "EXIT_SUCCESS" =>
       /\ \A j \in 1..Len(list_datasets) : \A f \in DOMAIN dir :
             Cardinality({ k \in Calls :
                             clip_calls[k].position = j /\ clip_calls[k].fname = f })
                = IF Wanted(list_datasets[j], f) THEN 1 ELSE 0
       /\ \A k \in Calls :
             /\ clip_calls[k].position \in 1..Len(list_datasets)
             /\ clip_calls[k].band = list_datasets[clip_calls[k].position]
             /\ clip_calls[k].fname \in DOMAIN dir
       /\ \A k \in Calls : \A l \in Calls :
             k < l =>
                \/ clip_calls[k].position < clip_calls[l].position
                \/ /\ clip_calls[k].position = clip_calls[l].position
                   /\ StrLess(clip_calls[k].fname, clip_calls[l].fname)

\* a run over two different datasets ended with EXIT_SUCCESS after two
\* files were clipped for one of them, while the directory held a file
\* that was not to be clipped
C5_Witness ==
    /\ status = "EXIT_SUCCESS"
    /\ \E k \in Calls : \E l \in Calls :
          /\ k < l
          /\ clip_calls[k].position = clip_calls[l].position
          /\ clip_calls[k].fname # clip_calls[l].fname
    /\ \E k \in Calls : clip_calls[k].position = 2
    /\ list_datasets[1] # list_datasets[2]
    /\ \E f \in DOMAIN dir : \A d \in Requested : ~Wanted(d, f)

\* directory joined with name: a "/" is put between them exactly when the
\* directory does not end in one
Joined(directory, name) ==
    IF EndsWith(directory, << "/" >>) THEN directory \o name
    ELSE directory \o << "/" >> \o name

\* C6: for every clipped file the input path is the input directory joined
\* with <stem><extension> and the output path is the output directory
\* joined with <stem><label><extension>, a "/" being put in each join
\* exactly when that directory does not end in one.
C6_PathsJoined ==
    \A k \in Calls :
       /\ clip_calls[k].inFile =
             Joined(argv.i, splitPath(clip_calls[k].fname).stem
                            \o splitPath(clip_calls[k].fname).extension)
       /\ clip_calls[k].outFile =
             Joined(argv.o, splitPath(clip_calls[k].fname).stem \o argv.n
                            \o splitPath(clip_calls[k].fname).extension)

\* C7: in a run that ends with EXIT_SUCCESS two different pairs of a
\* dataset and a file that were both clipped were not written to the same
\* output path.
C7_OneOutputPerPair ==
    status = "EXIT_SUCCESS" =>
       \A k \in Calls : \A l \in Calls :
          (clip_calls[k].band # clip_calls[l].band
              \/ clip_calls[k].fname # clip_calls[l].fname)
          => clip_calls[k].outFile # clip_calls[l].outFile

\* the extent has been read: the run is in the loops or ended in them
ExtentRead == pc \in { "band", "file", "meta", "clip" } \/ (pc = "done" /\ bi >= 1)

\* C8: the bounding box is the envelope of the mask with 31 taken from its
\* minima and 31 added to its maxima, from the moment it is read to the end
\* of the run, and every call of the clip primitive receives these four
\* values.
C8_ExtentInflatedOnce ==
    /\ ExtentRead =>
          /\ minX = envelope.minX - 31 /\ minY = envelope.minY - 31
          /\ maxX = envelope.maxX + 31 /\ maxY = envelope.maxY + 31
    /\ \A k \in Calls :
          /\ clip_calls[k].minX = envelope.minX - 31
          /\ clip_calls[k].minY = envelope.minY - 31
          /\ clip_calls[k].maxX = envelope.maxX + 31
          /\ clip_calls[k].maxY = envelope.maxY + 31

\* the mask (100,100)-(200,200) gave (69,69)-(231,231) to the calls of two
\* datasets
C8_Witness ==
    /\ envelope = [minX |-> 100, minY |-> 100, maxX |-> 200, maxY |-> 200]
    /\ \E k \in Calls : \E l \in Calls :
          /\ clip_calls[k].position # clip_calls[l].position
          /\ clip_calls[l].minX = 69 /\ clip_calls[l].minY = 69
          /\ clip_calls[l].maxX = 231 /\ clip_calls[l].maxY = 231

(***************************************************************************)
(* Single calls of the CRS functions.                                      *)
(***************************************************************************)
InitZone ==
    /\ Idle
    /\ arg \in [ zone : (0 - MaxZone)..MaxZone, isSouthernHemisphere : BOOLEAN ]
    /\ ret = << >>
    /\ returned = FALSE

CallGetEPSG ==
    /\ ~returned
    /\ ret' = getEPSGFromUTMZone(arg.zone, arg.isSouthernHemisphere)
    /\ returned' = TRUE
    /\ UNCHANGED << driver, arg >>

SpecZone == InitZone /\ [][CallGetEPSG]_vars

\* the texts handed to parseEPSG: "EPSG:" followed by every short suffix of
\* digits, letters, blanks and signs, texts with another prefix, and codes
\* at the limit of int
EpsgSuffixes == StringsUpTo({ "0", "1", "a", " ", "-", "+" }, MaxLen)

OtherPrefixes ==
    { << >>, << "E", "P", "S", "G" >>, << "e", "p", "s", "g", ":" >>,
      << "E", "P", "S", "G", "=" >>, << " ", "E", "P", "S", "G", ":" >>,
      << "3", "2" >> }

EpsgTexts ==
    { EpsgPrefix \o t : t \in EpsgSuffixes }
    \cup { q \o t : q \in OtherPrefixes, t \in StringsUpTo({ "1", "5" }, 2) }
    \cup { Crs32615, << "3", "2", "6", "1", "5" >>,
           EpsgPrefix \o to_string(IntMax),
           EpsgPrefix \o << "2", "1", "4", "7", "4", "8", "3", "6", "4", "8" >> }

InitParse ==
    /\ Idle
    /\ arg \in EpsgTexts
    /\ ret = 0
    /\ returned = FALSE

CallParseEPSG ==
    /\ ~returned
    /\ ret' = parseEPSG(arg)
    /\ returned' = TRUE
    /\ UNCHANGED << driver, arg >>

SpecParse == InitParse /\ [][CallParseEPSG]_vars

(***************************************************************************)
(* Properties of the CRS functions.                                        *)
(***************************************************************************)
\* the number a string of decimal digits without sign denotes
RECURSIVE Denotes(_)
Denotes(ds) ==
    IF ds = << >> THEN 0
    ELSE 10 * Denotes(SubSeq(ds, 1, Len(ds) - 1)) + DigitVal(ds[Len(ds)])

AllDigits(s) == \A i \in 1..Len(s) : IsDigit(s[i])

\* s is "EPSG:" followed by the decimal digits of n, without leading zero
IsEpsgOf(s, n) ==
    /\ Len(s) > 5
    /\ SubSeq(s, 1, 5) = << "E", "P", "S", "G", ":" >>
    /\ AllDigits(SubSeq(s, 6, Len(s)))
    /\ s[6] # "0"
    /\ Denotes(SubSeq(s, 6, Len(s))) = n

\* C11: for every zone in 1..60 getEPSGFromUTMZone returns "EPSG:" followed
\* by 32600 + zone for the Northern and by 32700 + zone for the Southern
\* hemisphere; for every zone outside 1..60 (0, 61, the negative zones) it
\* returns the empty string, whatever the hemisphere flag.
C11_EpsgFromZone ==
    returned =>
        /\ (arg.zone \in 1..60 /\ ~arg.isSouthernHemisphere)
              => IsEpsgOf(ret, 32600 + arg.zone)
        /\ (arg.zone \in 1..60 /\ arg.isSouthernHemisphere)
              => IsEpsgOf(ret, 32700 + arg.zone)
        /\ arg.zone \notin 1..60 => ret = << >>

\* the zone 0 has been refused for the Southern hemisphere
C11_Witness ==
    /\ returned
    /\ arg.zone = 0
    /\ arg.isSouthernHemisphere
    /\ ret = << >>

StartsWithEpsg(s) ==
    Len(s) >= 5 /\ SubSeq(s, 1, 5) = << "E", "P", "S", "G", ":" >>

\* the text behind the first five characters
EpsgSuffix(s) == SubSeq(s, 6, Len(s))

\* C12: parseEPSG returns n for "EPSG:" followed by the decimal digits of n
\* (stated here for the codes of at most nine digits, which all are ints),
\* and -1 for every text with another prefix (a bare number such as "32615"
\* too) and for every text whose suffix behind "EPSG:" is not numeric: empty,
\* or holding a character that is no digit.
C12_ParseEPSG ==
    returned =>
        /\ (/\ StartsWithEpsg(arg)
            /\ EpsgSuffix(arg) # << >>
            /\ AllDigits(EpsgSuffix(arg))
            /\ Len(EpsgSuffix(arg)) <= 9)
              => ret = Denotes(EpsgSuffix(arg))
        /\ ~StartsWithEpsg(arg) => ret = 0 - 1
        /\ (/\ StartsWithEpsg(arg)
            /\ (EpsgSuffix(arg) = << >> \/ ~AllDigits(EpsgSuffix(arg))))
              => ret = 0 - 1

(***************************************************************************)
(* Single calls of the metadata parser.                                    *)
(***************************************************************************)
\* MAP_PROJECTION=PS followed by a blank: a value without quotes
LineProjectionPS ==
    KeyProjection \o << "=", "P", "S", " " >>

\* MAP_PROJECTION = "": a value that is empty between its quotes
LineProjectionEmpty ==
    KeyProjection \o << " ", "=", " ", "\"", "\"" >>

\* the lines of the metadata files: a group header, projections, zones
\* (valid, zero, no number), a line of blanks and an empty line
MetadataLines ==
    { LineGroup, LineProjection, LineProjectionPS, LineProjectionEmpty,
      LineZone(<< "1", "2" >>), LineZone(<< "1", "5" >>), LineZone(<< "0" >>),
      LineZone(<< "x" >>), << " ", "\t" >>, << >> }

MetadataFiles ==
    { TextFile(l) : l \in UNION { [1..k -> MetadataLines] : k \in 0..MaxLines } }
    \cup { Unreadable }

\* std::string projection; int utmZone = 0; before the call (main.cpp:222-223)
NothingExtracted ==
    [thrown |-> FALSE, ok |-> FALSE, projection |-> << >>, utmZone |-> 0]

InitExtract ==
    /\ Idle
    /\ arg \in MetadataFiles
    /\ ret = NothingExtracted
    /\ returned = FALSE

CallExtract ==
    /\ ~returned
    /\ ret' = extractProjectionInfo(arg, << >>, 0)
    /\ returned' = TRUE
    /\ UNCHANGED << driver, arg >>

SpecExtract == InitExtract /\ [][CallExtract]_vars

(***************************************************************************)
(* Properties of the metadata parser.                                      *)
(***************************************************************************)
\* the lines among the first k that contain the key
KeyLines(lines, key, k) == { j \in 1..k : Mentions(lines[j], key) }

\* the text behind the first "=" of a line that has one
AfterEquals(line) ==
    SubSeq(line,
           (CHOOSE i \in 1..Len(line) :
               line[i] = "=" /\ \A j \in 1..(i - 1) : line[j] # "=") + 1,
           Len(line))

\* v without the blanks in front of it and behind it
Trimmed(v) ==
    IF \A i \in 1..Len(v) : v[i] \in { " ", "\t" } THEN << >>
    ELSE SubSeq(v,
                CHOOSE i \in 1..Len(v) :
                   v[i] \notin { " ", "\t" }
                   /\ \A j \in 1..(i - 1) : v[j] \in { " ", "\t" },
                CHOOSE i \in 1..Len(v) :
                   v[i] \notin { " ", "\t" }
                   /\ \A j \in (i + 1)..Len(v) : v[j] \in { " ", "\t" })

NoQuoteBehind(v) ==
    IF v # << >> /\ v[Len(v)] = "\"" THEN SubSeq(v, 1, Len(v) - 1) ELSE v

\* v without the double quotes around it
Unquoted(v) ==
    NoQuoteBehind(IF v # << >> /\ v[1] = "\"" THEN SubSeq(v, 2, Len(v)) ELSE v)

ProjectionOfLine(line) == Unquoted(Trimmed(AfterEquals(line)))

\* the value of the zone line is a number
NumericZone(line) ==
    /\ Trimmed(AfterEquals(line)) # << >>
    /\ AllDigits(Trimmed(AfterEquals(line)))
    /\ Len(Trimmed(AfterEquals(line))) <= 9

ZonesNumeric(lines) ==
    \A j \in KeyLines(lines, KeyZone, Len(lines)) : NumericZone(lines[j])

\* the projection the first k lines give: the value of the last of them
\* that holds the key
ProjectionUpTo(lines, k) ==
    IF KeyLines(lines, KeyProjection, k) = { } THEN << >>
    ELSE ProjectionOfLine(lines[Greatest(KeyLines(lines, KeyProjection, k))])

ZoneUpTo(lines, k) ==
    IF KeyLines(lines, KeyZone, k) = { } THEN 0
    ELSE Denotes(Trimmed(AfterEquals(lines[Greatest(KeyLines(lines, KeyZone, k))])))

Populated(lines, k) ==
    ProjectionUpTo(lines, k) # << >> /\ ZoneUpTo(lines, k) # 0

\* the first line after which both fields are populated, the last line
\* when there is none
StopLine(lines) ==
    IF \E k \in 1..Len(lines) : Populated(lines, k)
    THEN CHOOSE k \in 1..Len(lines) :
            Populated(lines, k) /\ \A j \in 1..(k - 1) : ~Populated(lines, j)
    ELSE Len(lines)

LacksKey(lines) ==
    \/ KeyLines(lines, KeyProjection, Len(lines)) = { }
    \/ KeyLines(lines, KeyZone, Len(lines)) = { }

\* C13: extractProjectionInfo, called with an empty projection and the zone
\* 0 on a file it can read, returns; the fields it leaves are those of the
\* lines up to the first line after which both are populated (for each key
\* the value behind the first "=" of the last line holding it, blanks and
\* surrounding quotes stripped for the projection), so that later lines
\* change nothing; it returns success exactly when the projection is not
\* empty and the zone is not 0, and failure for a file that lacks a key.
C13_ExtractProjectionInfo ==
    (returned /\ arg.readable) =>
        /\ ~ret.thrown
        /\ ZonesNumeric(arg.lines) =>
              /\ ret.projection = ProjectionUpTo(arg.lines, StopLine(arg.lines))
              /\ ret.utmZone = ZoneUpTo(arg.lines, StopLine(arg.lines))
        /\ ret.ok <=> (ret.projection # << >> /\ ret.utmZone # 0)
        /\ LacksKey(arg.lines) => ~ret.ok

====
